---------------------------- MODULE Spec2Model ----------------------------
(***************************************************************************)
(* A model of the downloadable-resource management of Enroute Flight       *)
(* Navigation: DataManagement::DataManager (src/src/dataManagement/        *)
(* DataManager.cpp), the Downloadable objects it owns and the              *)
(* DownloadableGroup(Watcher)s it files them in.                           *)
(*                                                                         *)
(* Strings (QString, QUrl, file paths) are sequences of tokens: a token is *)
(* a separator ("." or "/") or a run of characters holding no separator.   *)
(* File names are written relative to the download directory               *)
(* AppDataLocation + "/aviation_maps/", which every local file name of the *)
(* program starts with.                                                    *)
(***************************************************************************)
EXTENDS Integers, Sequences, FiniteSets, TLC

(***************************************************************************)
(* Bounds of the model.                                                    *)
(***************************************************************************)
\* the longest "maps" array of a manifest
MaxEntries == 2
\* the most Downloadable objects alive at once
MaxObjects == 3
\* remote file versions: version v has size v and date v
MaxVersion == 2
\* the age of the time stamp of the last update, in days, stops growing here
MaxDays == 7

\* the highest ground speed of a position update, in knots
MaxSpeedKN == 40
\* the most METARs and TAFs in one reply of the Aviation Weather Center
MaxItems == 3

(***************************************************************************)
(* Constants of the program.                                               *)
(***************************************************************************)
\* an update is due when the last one is more than 6 days ago
StaleDays == 6
\* the timer interval while an update is due, in hours
RetryHours == 1
\* the timer interval otherwise, in hours
DailyHours == 24
\* the first update of the weather reports is one second after construction
FirstUpdateSeconds == 1
\* the following ones are 30 minutes after the update before
UpdateMinutes == 30

(***************************************************************************)
(* QString.                                                                *)
(***************************************************************************)
EmptyStr == << >>

\* QString::split(sep, KeepEmptyParts): the fields of s between separators.
Fields(s, sep) ==
    LET pos == {i \in 1..Len(s) : s[i] = sep}
        n == Cardinality(pos) + 1
        \* the k-th separator position (1-based); 0 and Len(s)+1 frame the string
        Nth[k \in 0..n] ==
            IF k = 0 THEN 0
            ELSE IF k = n THEN Len(s) + 1
            ELSE CHOOSE p \in pos : Cardinality({q \in pos : q < p}) = k - 1
    IN [k \in 1..n |-> SubSeq(s, Nth[k-1] + 1, Nth[k] - 1)]

\* The fields f[from..to] joined by sep.
RECURSIVE Join(_, _, _, _)
Join(f, sep, from, to) ==
    IF from > to THEN EmptyStr
    ELSE IF from = to THEN f[from]
    ELSE f[from] \o <<sep>> \o Join(f, sep, from + 1, to)

\* QString::section(sep, start, end) with default flags: fields are counted
\* from 0 on the left and from -1 on the right.
section(s, sep, start, end) ==
    LET f == Fields(s, sep)
        n == Len(f)
        st == IF start < 0 THEN start + n ELSE start
        en == IF end < 0 THEN end + n ELSE end
    IN IF st >= n \/ en < 0 \/ st > en THEN EmptyStr
       ELSE Join(f, sep, (IF st > 0 THEN st ELSE 0) + 1,
                 (IF en < n - 1 THEN en ELSE n - 1) + 1)

\* QString::endsWith(suffix) for a suffix that is one token.
endsWith(s, suffix) == Len(s) > 0 /\ s[Len(s)] = suffix

\* The directories above the file or directory at path, the nearest last.
Ancestors(path) ==
    {section(path, "/", 0, k - 1) : k \in 1..(Len(Fields(path, "/")) - 1)}

\* The directory the file or directory at path is in (empty: the root).
ParentDir(path) == section(path, "/", 0, -2)

\* The code-point order of the tokens of the model ("-" < "." < "/" < upper case <
\* lower case).
TokenOrder ==
    << "-", ".", "/", "Africa", "EDDF", "EDTF", "Europe", "LSZH",
       "Unsupported Maps", "geojson", "lakes", "mbtiles", "notes", "old",
       "orphan", "pdf", "srv", "txt" >>

TokenRankOf ==
    [t \in {TokenOrder[i] : i \in 1..Len(TokenOrder)} |->
        CHOOSE i \in 1..Len(TokenOrder) : TokenOrder[i] = t]

\* operator< of QString: lexicographic.
RECURSIVE StrLess(_, _)
StrLess(a, b) ==
    IF b = EmptyStr THEN FALSE
    ELSE IF a = EmptyStr THEN TRUE
    ELSE IF Head(a) # Head(b) THEN TokenRankOf[Head(a)] < TokenRankOf[Head(b)]
    ELSE StrLess(Tail(a), Tail(b))


(***************************************************************************)
(* The values of the model.                                                *)
(***************************************************************************)
\* Object identities (pointers to Downloadable objects).
Ids == 1..MaxObjects

Versions == 1..MaxVersion

\* The relative paths that occur in manifests and in the download directory.
PathEuropeLakes == << "Europe", "/", "lakes", ".", "geojson" >>

PathAfricaLakes == << "Africa", "/", "lakes", ".", "mbtiles" >>

PathOrphan == << "orphan", ".", "mbtiles" >>

\* The paths of the entries of a manifest: the same stem in two directories.
ManifestPaths == {PathEuropeLakes, PathAfricaLakes}

\* The files a run may find in the download directory when it starts: one
\* that a manifest may list and one that none lists.
DiskPaths == {PathEuropeLakes, PathOrphan}

\* The paths of the manifests that show how the maps are named.
PathNotes == << "notes", ".", "txt" >>

PathOldNotes == << "old", "/", "notes", ".", "pdf" >>

NamingPaths ==
    {PathEuropeLakes, PathAfricaLakes, PathNotes, PathOldNotes,
     << "Europe", "/", "lakes", ".", "old", ".", "geojson" >>}

\* Two paths of one directory: the name of the second continues the name
\* "lakes" of the first with a character below ".".
OrderPaths ==
    {PathEuropeLakes, << "Europe", "/", "lakes", "-", "old", ".", "geojson" >>}

\* An entry of the "maps" array: {path, size, time}; version v of a remote
\* file has size v and date v.
CoupledEntries ==
    {e \in [path : ManifestPaths, size : Versions, time : Versions] :
        e.size = e.time}

RECURSIVE SeqsUpTo(_, _)
SeqsUpTo(S, n) ==
    IF n = 0 THEN {<< >>}
    ELSE LET shorter == SeqsUpTo(S, n - 1)
         IN shorter \cup {Append(q, x) : q \in {t \in shorter : Len(t) = n - 1}, x \in S}

BaseURL == << "srv" >>

\* The content of maps.json: bytes that are no JSON, a JSON document without
\* a "maps" array, or {"url": ..., "maps": [...]}.
Documents ==
    {[kind |-> "garbage"], [kind |-> "nomaps"]}
    \cup {[kind |-> "manifest", url |-> BaseURL, maps |-> m] :
              m \in SeqsUpTo(CoupledEntries, MaxEntries)}

NoFile == [kind |-> "nofile"]

\* The files found at start are of the first version.
InitialFileInfos == {[date |-> 1, size |-> 1]}

GroupNames == {"geoMaps", "aviationMaps", "baseMaps", "databases"}

UnsupportedSection == << "Unsupported Maps" >>

VARIABLES
    objs,          \* the Downloadable objects alive: id -> fields
    groups,        \* group name -> its _downloadables, in insertion order
    cache,         \* group name -> the _cached... values of the group
    files,         \* the download directory: path -> file info
    dirs,          \* the directories below the download directory
    mapsJson,      \* _maps_json: [downloading, file]
    acceptedTerms, \* Settings::acceptedTerms()
    timer,         \* _autoUpdateTimer: 0 (stopped) or its interval in hours
    lastUpdate,    \* "DataManager/MapListTimeStamp": -1 (none) or its age in days
    pc,            \* "constructed" | "running" | "quit"
    emitted,       \* the signals emitted by the last handler, in order
    last,          \* what the last handler was and did
    navigator,     \* the Navigator: [m_isInFlight, connected, info]
    meteorologist  \* the Meteorologist: [_replies, _reports, _backgroundUpdate,
                   \* interval of _updateTimer, _lastUpdate]

vars == << objs, groups, cache, files, dirs, mapsJson, acceptedTerms, timer,
           lastUpdate, pc, emitted, last, navigator, meteorologist >>

(***************************************************************************)
(* Downloadable.  Its implementation is not among the sources; the         *)
(* operators follow the design document (sections 3 and 4.1).              *)
(***************************************************************************)
\* A world is what a handler reads and writes while it runs: the variables
\* of the program, and
\*   emitted: the signals emitted so far,
\*   log: what the handler did to which object,
\*   deferred: the objects handed to deleteLater(),
\*   slotPending: a filesChanged of _geoMaps awaits its slot,
\*   used: the ids alive when the handler started or allocated since,
\*   overflow: an object was needed beyond MaxObjects.
CurrentWorld ==
    [objs |-> objs, groups |-> groups, cache |-> cache, files |-> files,
     dirs |-> dirs,
     mapsJson |-> mapsJson, acceptedTerms |-> acceptedTerms, timer |-> timer,
     lastUpdate |-> lastUpdate, emitted |-> << >>, log |-> {},
     deferred |-> {}, slotPending |-> FALSE, used |-> DOMAIN objs,
     overflow |-> FALSE]

Note(W, what, r) == [W EXCEPT !.log = @ \cup {[ev |-> what, id |-> r]}]

Signal(src, sig) == [src |-> src, sig |-> sig]

Emit(W, src, sig) == [W EXCEPT !.emitted = Append(@, Signal(src, sig))]

\* QUrl::isValid: the default-constructed QUrl() is empty and invalid.
UrlIsValid(url) == url # EmptyStr

\* Downloadable::hasFile
hasFile(W, r) == W.objs[r].fileName \in DOMAIN W.files

\* Downloadable::updatable: the local file exists, the remote descriptor is
\* valid, and the remote file is newer or differently sized than the local.
updatable(W, r) ==
    /\ hasFile(W, r)
    /\ UrlIsValid(W.objs[r].url)
    /\ \/ W.objs[r].remoteFileDate > W.files[W.objs[r].fileName].date
       \/ W.objs[r].remoteFileSize # W.files[W.objs[r].fileName].size

\* A newly constructed Downloadable(url, fileName): no remote descriptor yet,
\* no transfer in flight.
NewDownloadable(url, fileName) ==
    [objectName |-> EmptyStr, section |-> EmptyStr, url |-> url,
     fileName |-> fileName, remoteFileDate |-> 0, remoteFileSize |-> 0,
     state |-> "Idle", transfers |-> 0]


(***************************************************************************)
(* DownloadableGroup / DownloadableGroupWatcher.  The header             *)
(* DownloadableGroupWatcher.h is among the sources; the implementation is  *)
(* not and follows the design document (sections 4.2 and 4.3).             *)
(***************************************************************************)
SeqToSet(q) == {q[i] : i \in 1..Len(q)}

\* The members of a group that still exist: a QPointer to a destroyed object
\* is null and is skipped (pruned) by every computation.
Members(W, g) == SelectSeq(W.groups[g], LAMBDA r : r \in DOMAIN W.objs)

\* Remove every occurrence of x (QList::removeAll).
RemoveAll(q, x) == SelectSeq(q, LAMBDA y : y # x)

\* An order by section(), then by objectName().
GroupLessByName(W, a, b) ==
    IF W.objs[a].section # W.objs[b].section
    THEN StrLess(W.objs[a].section, W.objs[b].section)
    ELSE StrLess(W.objs[a].objectName, W.objs[b].objectName)

\* The order of the list 'downloadables': by section(), then by file name.
GroupLess(W, a, b) ==
    IF W.objs[a].section # W.objs[b].section
    THEN StrLess(W.objs[a].section, W.objs[b].section)
    ELSE StrLess(W.objs[a].fileName, W.objs[b].fileName)

RECURSIVE InsertSorted(_, _, _)
InsertSorted(W, list, r) ==
    IF list = << >> THEN << r >>
    ELSE IF GroupLess(W, r, Head(list)) THEN << r >> \o list
    ELSE << Head(list) >> \o InsertSorted(W, Tail(list), r)

\* A stable sort: equal keys keep their insertion order.
RECURSIVE SortGroup(_, _)
SortGroup(W, list) ==
    IF list = << >> THEN << >>
    ELSE InsertSorted(W, SortGroup(W, SubSeq(list, 1, Len(list) - 1)), list[Len(list)])

\* Property 'downloadables': the members, sorted; never a nullptr.
downloadables(W, g) == SortGroup(W, Members(W, g))

\* Property 'downloadablesWithFile', from the sorted members
downloadablesWithFile(W, g) ==
    SelectSeq(downloadables(W, g), LAMBDA r : hasFile(W, r))

\* A flag that is true of a group none of whose members is idle.
downloadingAll(W, g) ==
    \A r \in SeqToSet(Members(W, g)) : W.objs[r].state = "Downloading"

\* Property 'downloading': an empty group is not downloading.
downloading(W, g) ==
    \E r \in SeqToSet(Members(W, g)) : W.objs[r].state = "Downloading"

RECURSIVE InsertStr(_, _)
InsertStr(list, s) ==
    IF list = << >> THEN << s >>
    ELSE IF StrLess(s, Head(list)) THEN << s >> \o list
    ELSE << Head(list) >> \o InsertStr(Tail(list), s)

RECURSIVE SortStrs(_)
SortStrs(list) ==
    IF list = << >> THEN << >>
    ELSE InsertStr(SortStrs(Tail(list)), Head(list))

\* Property 'files': the sorted local paths of the members that have a file.
FilesOf(W, with) == SortStrs([i \in 1..Len(with) |-> W.objs[with[i]].fileName])

\* Property 'hasFile'
groupHasFile(W, g) == \E r \in SeqToSet(Members(W, g)) : hasFile(W, r)

\* Property 'updatable': an empty group is not updatable.
groupUpdatable(W, g) == \E r \in SeqToSet(Members(W, g)) : updatable(W, r)

\* The sum of Downloadable::updateSize over the list, in bytes.
RECURSIVE SumUpdateSize(_, _)
SumUpdateSize(W, list) ==
    IF list = << >> THEN 0
    ELSE (IF updatable(W, Head(list)) THEN W.objs[Head(list)].remoteFileSize ELSE 0)
         + SumUpdateSize(W, Tail(list))

\* Property 'updateSize': the sum over the updatable members, in bytes (0
\* stands for the empty string).
groupUpdateSize(W, g) == SumUpdateSize(W, Members(W, g))

\* The six _cached... members, as computed from the members now.
Aggregates(W, g) ==
    LET with == downloadablesWithFile(W, g)
    IN [downloadablesWithFile |-> with,
        downloading |-> downloading(W, g),
        files |-> FilesOf(W, with),
        hasFile |-> groupHasFile(W, g),
        updatable |-> groupUpdatable(W, g),
        updateSize |-> groupUpdateSize(W, g)]

\* The properties in the order their signals are declared.
CachedProperties ==
    << "downloadablesWithFile", "downloading", "files", "hasFile", "updatable",
       "updateSize" >>

NotifierOf(prop) == [downloadablesWithFile |-> "downloadablesWithFileChanged",
                     downloading |-> "downloadingChanged",
                     files |-> "filesChanged",
                     hasFile |-> "hasFileChanged",
                     updatable |-> "updatableChanged",
                     updateSize |-> "updateSizeChanged"][prop]

\* DataManager::DataManager, the connections of the group _geoMaps:
\* downloadablesChanged -> the signal geoMapListChanged,
\* filesChanged -> the slot localFileOfGeoMapChanged, which runs (RunSlots)
\* when the group operation that emitted the signal has updated the cache.
EmitGroupSignal(W, g, sig) ==
    LET W1 == Emit(W, g, sig)
    IN IF g = "geoMaps" /\ sig = "downloadablesChanged"
       THEN Emit(W1, "DataManager", "geoMapListChanged")
       ELSE IF g = "geoMaps" /\ sig = "filesChanged"
       THEN [W1 EXCEPT !.slotPending = TRUE]
       ELSE W1

\* A slip in checkAndEmitSignals: the notifiers are emitted without the
\* comparison with the cached values.
RECURSIVE EmitUncompared(_, _, _, _, _)
EmitUncompared(W, g, old, new, i) ==
    IF i > Len(CachedProperties) THEN W
    ELSE EmitUncompared(EmitGroupSignal(W, g, NotifierOf(CachedProperties[i])),
                        g, old, new, i + 1)

\* Emit the notifier of every property, from the i-th on, whose new value
\* differs from the old cached one.
RECURSIVE EmitChanged(_, _, _, _, _)
EmitChanged(W, g, old, new, i) ==
    IF i > Len(CachedProperties) THEN W
    ELSE LET prop == CachedProperties[i]
             W1 == IF old[prop] # new[prop]
                   THEN EmitGroupSignal(W, g, NotifierOf(prop))
                   ELSE W
         IN EmitChanged(W1, g, old, new, i + 1)

\* DownloadableGroupWatcher::checkAndEmitSignals: recompute, overwrite the
\* cache and notify of each property whose value changed.
checkAndEmitSignals(W, g) ==
    LET old == W.cache[g]
        new == Aggregates(W, g)
    IN EmitChanged([W EXCEPT !.cache[g] = new], g, old, new, 1)

\* The membership of the group g changed to list.
MembersChanged(W, g, list) ==
    EmitGroupSignal(checkAndEmitSignals([W EXCEPT !.groups[g] = list], g),
                    g, "downloadablesChanged")

\* DownloadableGroup::removeFromGroup
removeFromGroup(W, g, r) ==
    IF r \notin SeqToSet(W.groups[g]) THEN W
    ELSE MembersChanged(W, g, RemoveAll(W.groups[g], r))

\* A slip in the loop of localFileOfGeoMapChanged: the test of the URL is
\* inverted, so that the maps with a valid URL are the ones looked at.
RECURSIVE RemoveSupportedWithoutFile(_, _, _)
RemoveSupportedWithoutFile(W, geoMaps, i) ==
    IF i > Len(geoMaps) THEN W
    ELSE LET geoMapPtr == geoMaps[i]
             W1 == IF ~UrlIsValid(W.objs[geoMapPtr].url) THEN W
                   ELSE IF hasFile(W, geoMapPtr) THEN W
                   ELSE [removeFromGroup(Note(W, "pruned", geoMapPtr),
                                         "geoMaps", geoMapPtr)
                            EXCEPT !.deferred = @ \cup {geoMapPtr}]
         IN RemoveSupportedWithoutFile(W1, geoMaps, i + 1)

\* The loop of localFileOfGeoMapChanged over the snapshot geoMaps, from the
\* i-th element on.
RECURSIVE RemoveUnsupportedWithoutFile(_, _, _)
RemoveUnsupportedWithoutFile(W, geoMaps, i) ==
    IF i > Len(geoMaps) THEN W
    ELSE LET geoMapPtr == geoMaps[i]
             W1 == IF UrlIsValid(W.objs[geoMapPtr].url) THEN W
                   ELSE IF hasFile(W, geoMapPtr) THEN W
                   ELSE [removeFromGroup(Note(W, "pruned", geoMapPtr),
                                         "geoMaps", geoMapPtr)
                            EXCEPT !.deferred = @ \cup {geoMapPtr}]
         IN RemoveUnsupportedWithoutFile(W1, geoMaps, i + 1)

\* DataManager::localFileOfGeoMapChanged; deleteLater() defers the deletion
\* until control returns to the event loop.
localFileOfGeoMapChanged(W) ==
    RemoveUnsupportedWithoutFile(W, downloadables(W, "geoMaps"), 1)

\* Run the slot for every filesChanged of _geoMaps not yet delivered.
RECURSIVE RunSlots(_)
RunSlots(W) ==
    IF ~W.slotPending THEN W
    ELSE RunSlots(localFileOfGeoMapChanged([W EXCEPT !.slotPending = FALSE]))

\* DownloadableGroup::addToGroup: no double entries.
addToGroup(W, g, r) ==
    IF r \in SeqToSet(W.groups[g]) THEN W
    ELSE RunSlots(MembersChanged(W, g, Append(W.groups[g], r)))

\* The groups in the order a Downloadable is connected to them.
GroupOrder == << "geoMaps", "aviationMaps", "baseMaps", "databases" >>

\* A member changed (its downloadingChanged, updatableChanged, hasFileChanged
\* are connected to checkAndEmitSignals of each group it is in).
RECURSIVE MemberChanged(_, _, _)
MemberChanged(W, r, i) ==
    IF i > Len(GroupOrder) THEN RunSlots(W)
    ELSE LET g == GroupOrder[i]
             W1 == IF r \in SeqToSet(W.groups[g]) THEN checkAndEmitSignals(W, g)
                   ELSE W
         IN MemberChanged(W1, r, i + 1)

\* DownloadableGroupWatcher::cleanUp, on QObject::destroyed of the member r:
\* the QPointer to r is null by now and is pruned.
RECURSIVE PruneDestroyed(_, _, _)
PruneDestroyed(W, r, i) ==
    IF i > Len(GroupOrder) THEN RunSlots(W)
    ELSE LET g == GroupOrder[i]
             W1 == IF r \in SeqToSet(W.groups[g])
                   THEN MembersChanged(W, g, RemoveAll(W.groups[g], r))
                   ELSE W
         IN PruneDestroyed(W1, r, i + 1)

\* delete r: the object is gone (a running transfer with it), every QPointer
\* to it is null, and the groups it was in prune it.
Delete(W, r) ==
    IF r \notin DOMAIN W.objs THEN W
    ELSE PruneDestroyed(
             [W EXCEPT !.objs = [x \in DOMAIN W.objs \ {r} |-> W.objs[x]],
                       !.deferred = @ \ {r}], r, 1)

\* Control returns to the event loop: the deferred deletions happen.
RECURSIVE ReturnToEventLoop(_)
ReturnToEventLoop(W) ==
    IF W.deferred = {} THEN W
    ELSE LET r == CHOOSE x \in W.deferred : \A y \in W.deferred : x <= y
         IN ReturnToEventLoop(Delete(W, r))

\* new Downloadable(...): the object gets the least unused identity.
FreshId(W) == CHOOSE x \in Ids \ W.used : \A y \in Ids \ W.used : x <= y

CanAllocate(W) == Ids \ W.used # {}

Allocate(W, r, fields) ==
    [W EXCEPT !.objs = [x \in DOMAIN W.objs \cup {r} |->
                            IF x = r THEN fields ELSE W.objs[x]],
              !.used = @ \cup {r}]

Overflow(W) == [W EXCEPT !.overflow = TRUE]


(***************************************************************************)
(* DataManager                                                             *)
(***************************************************************************)
\* A slip in unattachedFiles: the files are compared with the local files of
\* the aviation maps instead of those of all geo maps.
unattachedFilesOfAviationMaps(W) ==
    LET attached == {W.objs[r].fileName :
                         r \in SeqToSet(downloadables(W, "aviationMaps"))}
        found == {p \in DOMAIN W.files : p \notin attached}
        SetToSortedSeq[S \in SUBSET found] ==
            IF S = {} THEN << >>
            ELSE LET p == CHOOSE x \in S : TRUE
                 IN InsertStr(SetToSortedSeq[S \ {p}], p)
    IN SetToSortedSeq[found]

\* DataManager::unattachedFiles: the files of the download directory that are
\* the local file of no member of _geoMaps (in directory order, taken to be
\* the sorted one).
unattachedFiles(W) ==
    LET attached == {W.objs[r].fileName : r \in SeqToSet(downloadables(W, "geoMaps"))}
        found == {p \in DOMAIN W.files : p \notin attached}
        SetToSortedSeq[S \in SUBSET found] ==
            IF S = {} THEN << >>
            ELSE LET p == CHOOSE x \in S : TRUE
                 IN InsertStr(SetToSortedSeq[S \ {p}], p)
    IN SetToSortedSeq[found]


\* A new remote descriptor that ends the transfer of the old remote file.
SetRemoteDescriptorStopping(W, r, date, size) ==
    MemberChanged([W EXCEPT !.objs[r].remoteFileDate = date,
                            !.objs[r].remoteFileSize = size,
                            !.objs[r].state = "Idle",
                            !.objs[r].transfers = 0], r, 1)

\* Downloadable::setRemoteFileDate and setRemoteFileSize of an object that
\* may be in groups: the groups recompute.
SetRemoteDescriptor(W, r, date, size) ==
    MemberChanged([W EXCEPT !.objs[r].remoteFileDate = date,
                            !.objs[r].remoteFileSize = size], r, 1)

\* The first element of oldMaps whose objectName is name, or 0 (nullptr).
FindByName(W, oldMaps, name) ==
    LET hits == {i \in 1..Len(oldMaps) : W.objs[oldMaps[i]].objectName = name}
    IN IF hits = {} THEN 0
       ELSE oldMaps[CHOOSE i \in hits : \A j \in hits : i <= j]

\* addToGroup(d) on each of the groups of the list, in order.
RECURSIVE AddToGroups(_, _, _, _)
AddToGroups(W, list, d, i) ==
    IF i > Len(list) THEN W
    ELSE AddToGroups(addToGroup(W, list[i], d), list, d, i + 1)

\* A slip in the chain of tests on the suffix: the test for mbtiles is not
\* chained to the one for geojson, and its else branch takes the databases.
CreateFromEntryUnchained(W, mapFileName, mapName, mapUrlName, date, size) ==
    IF ~CanAllocate(W) THEN Overflow(W)
    ELSE LET localFileName == mapFileName
             d == FreshId(W)
             fields == [NewDownloadable(mapUrlName, localFileName) EXCEPT
                           !.objectName = section(mapName, "/", -1, -1),
                           !.section = section(mapName, "/", -2, -2),
                           !.remoteFileDate = date,
                           !.remoteFileSize = size]
             targets == << "geoMaps" >>
                        \o (IF endsWith(localFileName, "geojson")
                            THEN << "aviationMaps" >> ELSE << >>)
                        \o (IF endsWith(localFileName, "mbtiles")
                            THEN << "baseMaps" >> ELSE << "databases" >>)
         IN AddToGroups(Note(Allocate(W, d, fields), "created", d), targets, d, 1)

\* "Construct a new downloadable object": the else branch of the loop over
\* the "maps" array.
CreateFromEntry(W, mapFileName, mapName, mapUrlName, date, size) ==
    IF ~CanAllocate(W) THEN Overflow(W)
    ELSE LET localFileName == mapFileName
             d == FreshId(W)
             fields == [NewDownloadable(mapUrlName, localFileName) EXCEPT
                           !.objectName = section(mapName, "/", -1, -1),
                           !.section = section(mapName, "/", -2, -2),
                           !.remoteFileDate = date,
                           !.remoteFileSize = size]
             targets == << "geoMaps" >>
                        \o (IF endsWith(localFileName, "geojson")
                            THEN << "aviationMaps" >> ELSE << >>)
                        \o (IF endsWith(localFileName, "mbtiles")
                            THEN << "baseMaps" >> ELSE << >>)
                        \o (IF endsWith(localFileName, "txt")
                            THEN << "databases" >> ELSE << >>)
         IN AddToGroups(Note(Allocate(W, d, fields), "created", d), targets, d, 1)

\* The body of the loop over the "maps" array for one entry; P is the pair
\* of the world and the list oldMaps.
HandleEntry(P, baseURL, obj) ==
    LET W == P.W
        mapFileName == obj.path
        mapName == section(mapFileName, ".", -2, -2)
        mapUrlName == baseURL \o << "/" >> \o obj.path
        fileModificationDateTime == obj.time
        fileSize == obj.size
        mapPtr == FindByName(W, P.oldMaps, section(mapName, "/", -1, -1))
    IN IF mapPtr # 0
       THEN [W |-> SetRemoteDescriptor(Note(W, "claimed", mapPtr), mapPtr,
                                       fileModificationDateTime, fileSize),
             oldMaps |-> RemoveAll(P.oldMaps, mapPtr)]
       ELSE [W |-> CreateFromEntry(W, mapFileName, mapName, mapUrlName,
                                   fileModificationDateTime, fileSize),
             oldMaps |-> P.oldMaps]

RECURSIVE HandleEntries(_, _, _, _)
HandleEntries(P, baseURL, maps, i) ==
    IF i > Len(maps) THEN P
    ELSE HandleEntries(HandleEntry(P, baseURL, maps[i]), baseURL, maps, i + 1)

\* A slip in the loop over the leftover objects: the test of the local file
\* is inverted, so that the maps with a local file are the ones deleted.
RECURSIVE DeleteLeftoversWithFile(_, _, _)
DeleteLeftoversWithFile(W, oldMaps, i) ==
    IF i > Len(oldMaps) THEN W
    ELSE LET geoMapPtr == oldMaps[i]
             W1 == IF ~hasFile(W, geoMapPtr) THEN Note(W, "kept", geoMapPtr)
                   ELSE Delete(Note(W, "deleted", geoMapPtr), geoMapPtr)
         IN DeleteLeftoversWithFile(W1, oldMaps, i + 1)

\* "Now go through all the leftover objects in the old list": those without
\* a local file are deleted, the others are kept as they are.
RECURSIVE DeleteLeftovers(_, _, _)
DeleteLeftovers(W, oldMaps, i) ==
    IF i > Len(oldMaps) THEN W
    ELSE LET geoMapPtr == oldMaps[i]
             W1 == IF hasFile(W, geoMapPtr) THEN Note(W, "kept", geoMapPtr)
                   ELSE Delete(Note(W, "deleted", geoMapPtr), geoMapPtr)
         IN DeleteLeftovers(W1, oldMaps, i + 1)

\* The loop over unattachedFiles(): one Downloadable without URL per file.
RECURSIVE AddUnattached(_, _, _)
AddUnattached(W, paths, i) ==
    IF i > Len(paths) THEN W
    ELSE IF ~CanAllocate(W) THEN Overflow(W)
    ELSE LET path == paths[i]
             d == FreshId(W)
             fields == [NewDownloadable(EmptyStr, path) EXCEPT
                           !.section = UnsupportedSection,
                           !.objectName = section(path, ".", 0, 0)]
             W1 == AddToGroups(Note(Allocate(W, d, fields), "unattached", d),
                               << "geoMaps" >>, d, 1)
         IN AddUnattached(W1, paths, i + 1)

\* DataManager::readGeoMapListFromJSONFile
readGeoMapListFromJSONFile(W) ==
    IF W.mapsJson.file = NoFile THEN W
    ELSE LET doc == W.mapsJson.file
             oldMaps == downloadables(W, "geoMaps")
         IN IF doc.kind = "garbage" THEN W
            ELSE LET baseURL == IF doc.kind = "manifest" THEN doc.url ELSE EmptyStr
                     maps == IF doc.kind = "manifest" THEN doc.maps ELSE << >>
                     P == HandleEntries([W |-> Note(W, "pass", 0), oldMaps |-> oldMaps],
                                        baseURL, maps, 1)
                     W1 == DeleteLeftovers(P.W, P.oldMaps, 1)
                 IN AddUnattached(W1, unattachedFiles(W1), 1)


\* A slip in Downloadable::startFileDownload: a download is started whether
\* or not one is running.
MapsJsonStartFileDownloadUnguarded(W) ==
    Emit([W EXCEPT !.mapsJson.requests = @ + 1],
         "DataManager", "downloadingGeoMapListChanged")

\* Downloadable::startFileDownload of _maps_json: nothing happens while a
\* download is running; its downloadingChanged is connected to the signal
\* downloadingGeoMapListChanged.
MapsJsonStartFileDownload(W) ==
    IF W.mapsJson.requests > 0 THEN Note(W, "busy", 0)
    ELSE Emit([W EXCEPT !.mapsJson.requests = @ + 1],
              "DataManager", "downloadingGeoMapListChanged")

\* A slip in updateGeoMapList: the request is dropped.
updateGeoMapListDropped(W) == W

\* DataManager::updateGeoMapList
updateGeoMapList(W) == MapsJsonStartFileDownload(W)

\* A slip in errorReceiver: the message is dropped.
errorReceiverSilent(W) == W

\* DataManager::errorReceiver
errorReceiver(W) == Emit(W, "DataManager", "error")

\* DataManager::setTimeOfLastUpdateToNow
setTimeOfLastUpdateToNow(W) ==
    [W EXCEPT !.lastUpdate = 0, !.timer = DailyHours]

\* A slip in autoUpdateGeoMapList: a time stamp of exactly StaleDays days
\* counts as stale.
autoUpdateGeoMapListOffByOne(W) ==
    IF W.lastUpdate = -1 \/ W.lastUpdate >= StaleDays
    THEN updateGeoMapList([W EXCEPT !.timer = RetryHours])
    ELSE [W EXCEPT !.timer = DailyHours]

\* DataManager::autoUpdateGeoMapList
autoUpdateGeoMapList(W) ==
    IF W.lastUpdate = -1 \/ W.lastUpdate > StaleDays
    THEN updateGeoMapList([W EXCEPT !.timer = RetryHours])
    ELSE [W EXCEPT !.timer = DailyHours]

\* DataManager::deferredInitialization
deferredInitialization(W) ==
    LET W1 == IF W.acceptedTerms THEN autoUpdateGeoMapList(W) ELSE W
    IN IF W1.mapsJson.file # NoFile THEN readGeoMapListFromJSONFile(W1)
       ELSE IF W1.acceptedTerms THEN MapsJsonStartFileDownload(W1)
       ELSE W1

\* QDir::isEmpty: the directory d has no entry among the files fs and the
\* directories ds (also when d does not exist).
DirIsEmpty(d, fs, ds) ==
    /\ \A p \in DOMAIN fs : ParentDir(p) # d
    /\ \A e \in ds : ParentDir(e) # d

isEmpty(W, d) == DirIsEmpty(d, W.files, W.dirs)

\* QDir::removeRecursively: d and everything below it are gone.
removeRecursively(W, d) ==
    [W EXCEPT !.dirs = {e \in W.dirs : e # d /\ d \notin Ancestors(e)},
              !.files = [p \in {q \in DOMAIN W.files : d \notin Ancestors(q)} |->
                             W.files[p]]]

\* QFile::remove
RemoveFile(W, path) ==
    [W EXCEPT !.files = [p \in DOMAIN W.files \ {path} |-> W.files[p]]]

\* The elements of the set S of strings in ascending order.
RECURSIVE SortedSeqOf(_)
SortedSeqOf(S) ==
    IF S = {} THEN << >>
    ELSE LET p == CHOOSE x \in S : TRUE
         IN InsertStr(SortedSeqOf(S \ {p}), p)

\* cleanUp: "We hunt down those files and silently delete them."
RECURSIVE RemoveUnattachedFiles(_, _, _)
RemoveUnattachedFiles(W, paths, i) ==
    IF i > Len(paths) THEN W
    ELSE RemoveUnattachedFiles(Note(RemoveFile(W, paths[i]), "removedFile", 0),
                               paths, i + 1)

\* A slip in the run over the directories: didDelete is not set when a
\* directory is removed.
RECURSIVE RemoveEmptyDirsPassUnflagged(_, _, _, _)
RemoveEmptyDirsPassUnflagged(P, listing, i, n) ==
    IF i > Len(listing) THEN P
    ELSE LET d == listing[i]
             P1 == IF isEmpty(P.W, d)
                   THEN [W |-> Note(removeRecursively(P.W, d), "removedDir", n),
                         didDelete |-> P.didDelete]
                   ELSE P
         IN RemoveEmptyDirsPassUnflagged(P1, listing, i + 1, n)

\* One run of the QDirIterator over the directories, a directory before the
\* directories in it; P is the pair of the world and didDelete, n counts
\* the runs.
RECURSIVE RemoveEmptyDirsPass(_, _, _, _)
RemoveEmptyDirsPass(P, listing, i, n) ==
    IF i > Len(listing) THEN P
    ELSE LET d == listing[i]
             P1 == IF isEmpty(P.W, d)
                   THEN [W |-> Note(removeRecursively(P.W, d), "removedDir", n),
                         didDelete |-> TRUE]
                   ELSE P
         IN RemoveEmptyDirsPass(P1, listing, i + 1, n)

\* A slip in the loop of cleanUp: the directories are run through once.
RemoveEmptyDirsOnce(W, n) ==
    RemoveEmptyDirsPass([W |-> W, didDelete |-> FALSE],
                        SortedSeqOf(W.dirs), 1, n).W

\* cleanUp: do { ... } while (didDelete)
RECURSIVE RemoveEmptyDirs(_, _)
RemoveEmptyDirs(W, n) ==
    LET P == RemoveEmptyDirsPass([W |-> W, didDelete |-> FALSE],
                                 SortedSeqOf(W.dirs), 1, n)
    IN IF P.didDelete THEN RemoveEmptyDirs(P.W, n + 1) ELSE P.W

\* cleanUp: "Clear and delete everything"
RECURSIVE DeleteAll(_, _, _)
DeleteAll(W, list, i) ==
    IF i > Len(list) THEN W
    ELSE DeleteAll(Delete(W, list[i]), list, i + 1)

\* DataManager::cleanUp
cleanUp(W) ==
    LET W1 == RemoveUnattachedFiles(W, unattachedFiles(W), 1)
        W2 == RemoveEmptyDirs(W1, 1)
    IN DeleteAll(W2, downloadables(W2, "geoMaps"), 1)

\* The download of maps.json finished with the content doc: _maps_json emits
\* downloadingChanged and fileContentChanged, the latter connected to
\* readGeoMapListFromJSONFile and to setTimeOfLastUpdateToNow, in this order.
MapsJsonFinished(W, doc) ==
    LET W1 == Emit([W EXCEPT !.mapsJson.requests = @ - 1, !.mapsJson.file = doc],
                   "DataManager", "downloadingGeoMapListChanged")
    IN setTimeOfLastUpdateToNow(readGeoMapListFromJSONFile(W1))

\* The download of maps.json failed: _maps_json emits downloadingChanged and
\* error, the latter connected to errorReceiver.
MapsJsonFailed(W) ==
    errorReceiver(Emit([W EXCEPT !.mapsJson.requests = @ - 1],
                       "DataManager", "downloadingGeoMapListChanged"))

\* A start that opens a transfer beside the one that is running.
startFileDownloadUnguarded(W, r) ==
    IF ~UrlIsValid(W.objs[r].url) THEN W
    ELSE MemberChanged([W EXCEPT !.objs[r].state = "Downloading",
                                 !.objs[r].transfers = @ + 1], r, 1)

\* Downloadable::startFileDownload of a map: nothing happens without a valid
\* URL or while a download is running.
startFileDownload(W, r) ==
    IF ~UrlIsValid(W.objs[r].url) \/ W.objs[r].state = "Downloading" THEN W
    ELSE MemberChanged([W EXCEPT !.objs[r].state = "Downloading",
                                 !.objs[r].transfers = @ + 1], r, 1)

\* An abort of a transfer that wrote into the local file: the file is lost.
stopFileDownloadInPlace(W, r) ==
    IF W.objs[r].state # "Downloading" THEN W
    ELSE MemberChanged(
             [W EXCEPT !.objs[r].state = "Idle",
                       !.objs[r].transfers = 0,
                       !.files = [p \in DOMAIN W.files \ {W.objs[r].fileName} |->
                                      W.files[p]]],
             r, 1)

\* Downloadable::stopFileDownload: the transfer is aborted and its temporary
\* file is dropped; the local file is as it was.
stopFileDownload(W, r) ==
    IF W.objs[r].state # "Downloading" THEN W
    ELSE MemberChanged([W EXCEPT !.objs[r].state = "Idle",
                                 !.objs[r].transfers = 0], r, 1)

\* A download that ends without putting the file in place.
downloadFinishedNotInstalled(W, r) ==
    MemberChanged([W EXCEPT !.objs[r].state = "Idle",
                            !.objs[r].transfers = 0], r, 1)

\* The download of the map r finished: the temporary file replaces the local
\* file, which now is the remote file.
downloadFinished(W, r) ==
    LET info == [date |-> W.objs[r].remoteFileDate, size |-> W.objs[r].remoteFileSize]
        path == W.objs[r].fileName
    IN MemberChanged(
           [W EXCEPT !.objs[r].state = "Idle",
                     !.objs[r].transfers = 0,
                     !.dirs = @ \cup Ancestors(path),
                     !.files = [p \in DOMAIN W.files \cup {path} |->
                                    IF p = path THEN info ELSE W.files[p]]],
           r, 1)

\* The download of the map r failed: the local file is as it was.
downloadFailed(W, r) ==
    Emit(MemberChanged([W EXCEPT !.objs[r].state = "Failed",
                                 !.objs[r].transfers = 0], r, 1),
         "Downloadable", "error")

\* Downloadable::deleteFile
deleteFile(W, r) ==
    LET path == W.objs[r].fileName
    IN MemberChanged(
           [W EXCEPT !.files = [p \in DOMAIN W.files \ {path} |-> W.files[p]]],
           r, 1)

(***************************************************************************)
(* Navigator                                                               *)
(***************************************************************************)
\* Navigator::minFlightSpeedInKN and Navigator::flightSpeedHysteresisInKn
minFlightSpeedInKN == 30

flightSpeedHysteresisInKn == 5

\* A Units::Speed: a finite number of knots, or a value that is not finite,
\* as the default-constructed Units::Speed() is.
NotFinite == [finite |-> FALSE, kn |-> 0]

\* Positioning::PositionInfo: isValid() and groundSpeed(), a finite number of
\* knots or a value that is not finite
PositionInfos ==
    [valid : BOOLEAN,
     groundSpeed : {[finite |-> TRUE, kn |-> k] : k \in 0..MaxSpeedKN}
                       \cup {NotFinite}]

\* The Navigator after construction: m_isInFlight {false}, and no position
\* update is delivered to it yet.
NewNavigator ==
    [m_isInFlight |-> FALSE, connected |-> FALSE,
     info |-> [valid |-> FALSE, groundSpeed |-> NotFinite]]

\* Navigator::setIsInFlight, on a Navigator N that collects its signals in
\* N.emitted
setIsInFlight(N, newIsInFlight) ==
    IF N.m_isInFlight = newIsInFlight THEN N
    ELSE [N EXCEPT !.m_isInFlight = newIsInFlight,
                   !.emitted = Append(@, Signal("Navigator", "isInFlightChanged"))]

\* A handler with one threshold: in flight, it goes back to ground mode
\* below minFlightSpeedInKN.
onPositionUpdatedOneThreshold(N, info) ==
    LET GS == IF info.valid THEN info.groundSpeed ELSE NotFinite
    IN IF ~GS.finite THEN setIsInFlight(N, FALSE)
       ELSE IF N.m_isInFlight
       THEN IF GS.kn < minFlightSpeedInKN
            THEN setIsInFlight(N, FALSE)
            ELSE N
       ELSE IF GS.kn > minFlightSpeedInKN THEN setIsInFlight(N, TRUE)
       ELSE N

\* A handler that leaves the flight status alone when the ground speed is
\* not finite.
onPositionUpdatedHolding(N, info) ==
    LET GS == IF info.valid THEN info.groundSpeed ELSE NotFinite
    IN IF ~GS.finite THEN N
       ELSE IF N.m_isInFlight
       THEN IF GS.kn < minFlightSpeedInKN - flightSpeedHysteresisInKn
            THEN setIsInFlight(N, FALSE)
            ELSE N
       ELSE IF GS.kn > minFlightSpeedInKN THEN setIsInFlight(N, TRUE)
       ELSE N

\* Navigator::onPositionUpdated
onPositionUpdated(N, info) ==
    LET GS == IF info.valid THEN info.groundSpeed ELSE NotFinite
    IN IF ~GS.finite THEN setIsInFlight(N, FALSE)
       ELSE IF N.m_isInFlight
       THEN IF GS.kn < minFlightSpeedInKN - flightSpeedHysteresisInKn
            THEN setIsInFlight(N, FALSE)
            ELSE N
       ELSE IF GS.kn > minFlightSpeedInKN THEN setIsInFlight(N, TRUE)
       ELSE N

(***************************************************************************)
(* Meteorologist.  A reply of the network is [running, error, items]: it   *)
(* is running until it has finished, with an error or with the METARs and  *)
(* TAFs of its XML document; an item is [kind, code, id].  A Station is    *)
(* [code, metar, taf], where 0 stands for a report that is missing.  A     *)
(* Meteorologist M collects its signals in M.emitted and what it did in    *)
(* M.log.                                                                  *)
(***************************************************************************)
\* The state after the constructor Meteorologist::Meteorologist
NewMeteorologist ==
    [replies |-> << >>, reports |-> << >>, backgroundUpdate |-> TRUE,
     interval |-> FirstUpdateSeconds, lastUpdate |-> FALSE]

\* Meteorologist::downloading
Meteorologist_downloading(M) ==
    \E i \in 1..Len(M.replies) : M.replies[i].running

\* A slip in the reading of the replies: a METAR of a station that was
\* encountered before takes the place of the one read first.
ReportsOfLatest(replies) ==
    LET Items[i \in 0..Len(replies)] ==
            IF i = 0 THEN << >> ELSE Items[i - 1] \o replies[i].items
        all == Items[Len(replies)]
        \* the loop over the replies and the elements of their XML
        Read[i \in 0..Len(all)] ==
            IF i = 0
            THEN [mStations |-> << >>, tStations |-> << >>,
                  metars |-> << >>, tafs |-> << >>]
            ELSE LET R == Read[i - 1]
                     x == all[i]
                 IN IF x.kind = "METAR"
                    THEN IF x.code \in SeqToSet(R.mStations)
                         THEN [R EXCEPT !.metars = (x.code :> x.id) @@ @]
                         ELSE [R EXCEPT !.mStations = Append(@, x.code),
                                        !.metars = @ @@ (x.code :> x.id)]
                    ELSE IF x.code \in SeqToSet(R.tStations) THEN R
                         ELSE [R EXCEPT !.tStations = Append(@, x.code),
                                        !.tafs = @ @@ (x.code :> x.id)]
        R == Read[Len(all)]
        mStations == SortStrs(R.mStations)
        tStations == SortStrs(R.tStations)
        withMETAR == [i \in 1..Len(mStations) |->
                         LET station == mStations[i]
                         IN IF station \in DOMAIN R.tafs
                            THEN [code |-> station, metar |-> R.metars[station],
                                  taf |-> R.tafs[station]]
                            ELSE [code |-> station, metar |-> R.metars[station],
                                  taf |-> 0]]
        onlyTAF == SelectSeq(tStations,
                             LAMBDA station : station \notin DOMAIN R.metars)
    IN withMETAR \o [i \in 1..Len(onlyTAF) |->
                        [code |-> onlyTAF[i], metar |-> 0,
                         taf |-> R.tafs[onlyTAF[i]]]]

\* Meteorologist::process, the list _reports made of the replies: the
\* first METAR and the first TAF of every station, the stations with a
\* METAR in order, then those with a TAF alone.
ReportsOf(replies) ==
    LET Items[i \in 0..Len(replies)] ==
            IF i = 0 THEN << >> ELSE Items[i - 1] \o replies[i].items
        all == Items[Len(replies)]
        \* the loop over the replies and the elements of their XML
        Read[i \in 0..Len(all)] ==
            IF i = 0
            THEN [mStations |-> << >>, tStations |-> << >>,
                  metars |-> << >>, tafs |-> << >>]
            ELSE LET R == Read[i - 1]
                     x == all[i]
                 IN IF x.kind = "METAR"
                    THEN IF x.code \in SeqToSet(R.mStations) THEN R
                         ELSE [R EXCEPT !.mStations = Append(@, x.code),
                                        !.metars = @ @@ (x.code :> x.id)]
                    ELSE IF x.code \in SeqToSet(R.tStations) THEN R
                         ELSE [R EXCEPT !.tStations = Append(@, x.code),
                                        !.tafs = @ @@ (x.code :> x.id)]
        R == Read[Len(all)]
        mStations == SortStrs(R.mStations)
        tStations == SortStrs(R.tStations)
        withMETAR == [i \in 1..Len(mStations) |->
                         LET station == mStations[i]
                         IN IF station \in DOMAIN R.tafs
                            THEN [code |-> station, metar |-> R.metars[station],
                                  taf |-> R.tafs[station]]
                            ELSE [code |-> station, metar |-> R.metars[station],
                                  taf |-> 0]]
        onlyTAF == SelectSeq(tStations,
                             LAMBDA station : station \notin DOMAIN R.metars)
    IN withMETAR \o [i \in 1..Len(onlyTAF) |->
                        [code |-> onlyTAF[i], metar |-> 0,
                         taf |-> R.tafs[onlyTAF[i]]]]

\* A slip in the test for errors: the loop over the replies has no break.
Meteorologist_processUnbroken(M0) ==
    LET M == Note(Note(M0, "process",
                       Cardinality({e \in M0.log : e.ev = "process"}) + 1),
                  "replies", M0.replies)
        failed == {i \in 1..Len(M.replies) : M.replies[i].error}
    IN IF failed # {}
       THEN [M EXCEPT !.replies = << >>,
                      !.emitted = @ \o [i \in 1..Cardinality(failed) |->
                                           Signal("Meteorologist", "error")]]
       ELSE LET M1 == [M EXCEPT !.reports = ReportsOf(M.replies),
                                !.replies = << >>]
                M2 == Emit(Emit(M1, "Meteorologist", "reportsChanged"),
                           "Meteorologist", "QNHInfoChanged")
            IN Emit([M2 EXCEPT !.lastUpdate = TRUE],
                    "Meteorologist", "QNHInfoChanged")

\* Meteorologist::process; reportsChanged is connected to QNHInfoChanged.
Meteorologist_process(M0) ==
    LET M == Note(Note(M0, "process",
                       Cardinality({e \in M0.log : e.ev = "process"}) + 1),
                  "replies", M0.replies)
        hasError == \E i \in 1..Len(M.replies) : M.replies[i].error
    IN IF hasError
       THEN [Emit(M, "Meteorologist", "error") EXCEPT !.replies = << >>]
       ELSE LET M1 == [M EXCEPT !.reports = ReportsOf(M.replies),
                                !.replies = << >>]
                M2 == Emit(Emit(M1, "Meteorologist", "reportsChanged"),
                           "Meteorologist", "QNHInfoChanged")
            IN Emit([M2 EXCEPT !.lastUpdate = TRUE],
                    "Meteorologist", "QNHInfoChanged")

\* Meteorologist::downloadFinished
Meteorologist_downloadFinished(M) ==
    LET M1 == Emit(M, "Meteorologist", "downloadingChanged")
    IN IF Meteorologist_downloading(M1) THEN M1 ELSE Meteorologist_process(M1)

\* An update that does not look for running requests.
Meteorologist_updateUnguarded(M, isBackgroundUpdate, acceptedWeatherTerms, n, started) ==
    IF ~acceptedWeatherTerms THEN M
    ELSE LET M1 == [M EXCEPT !.interval = UpdateMinutes * 60]
             M2 == IF M1.backgroundUpdate # isBackgroundUpdate
                   THEN Emit([M1 EXCEPT !.backgroundUpdate = isBackgroundUpdate],
                             "Meteorologist", "backgroundUpdateChanged")
                   ELSE M1
             M3 == [M2 EXCEPT
                       !.replies = [i \in 1..n |->
                                       [running |-> started, error |-> ~started,
                                        items |-> << >>]],
                       !.log = @ \cup {[ev |-> "get", id |-> i] : i \in 1..n}]
         IN Meteorologist_downloadFinished(M3)

\* Meteorologist::update, with n queries; started tells whether the network
\* takes the requests up (a reply that is not taken up has finished with an
\* error when get() returns it).
Meteorologist_update(M, isBackgroundUpdate, acceptedWeatherTerms, n, started) ==
    IF ~acceptedWeatherTerms THEN M
    ELSE LET M1 == [M EXCEPT !.interval = UpdateMinutes * 60]
         IN IF Meteorologist_downloading(M1)
            THEN IF M1.backgroundUpdate /\ ~isBackgroundUpdate
                 THEN Emit([M1 EXCEPT !.backgroundUpdate = FALSE],
                           "Meteorologist", "backgroundUpdateChanged")
                 ELSE M1
            ELSE LET M2 == IF M1.backgroundUpdate # isBackgroundUpdate
                           THEN Emit([M1 EXCEPT !.backgroundUpdate = isBackgroundUpdate],
                                     "Meteorologist", "backgroundUpdateChanged")
                           ELSE M1
                     M3 == [M2 EXCEPT
                               !.replies = [i \in 1..n |->
                                               [running |-> started,
                                                error |-> ~started,
                                                items |-> << >>]],
                               !.log = @ \cup {[ev |-> "get", id |-> i] : i \in 1..n}]
                 IN Meteorologist_downloadFinished(M3)

(***************************************************************************)
(* The state machine.                                                      *)
(***************************************************************************)
PassRan(log) == [ev |-> "pass", id |-> 0] \in log

\* The document the last completed pass of readGeoMapListFromJSONFile read,
\* while no local file and no transfer has changed since (NoFile otherwise).
Reconciled(W, op) ==
    IF PassRan(W.log) THEN W.mapsJson.file
    ELSE IF op \in {"startFileDownload", "stopFileDownload", "downloadFinished",
                    "downloadFailed", "deleteFile"}
    THEN NoFile
    ELSE last.reconciled

\* The handler op ran and left the world W0; control returns to the event
\* loop.
Commit(W0, op) ==
    \E W \in {ReturnToEventLoop(W0)} :
       /\ ~W.overflow
       /\ objs' = W.objs
       /\ groups' = W.groups
       /\ cache' = W.cache
       /\ files' = W.files
       /\ dirs' = W.dirs
       /\ mapsJson' = W.mapsJson
       /\ acceptedTerms' = W.acceptedTerms
       /\ timer' = W.timer
       /\ lastUpdate' = W.lastUpdate
       /\ emitted' = W.emitted
       /\ last' = [op |-> op, log |-> W.log,
                   reconciled |-> Reconciled(W, op)]
       /\ UNCHANGED << navigator, meteorologist >>

\* The download directories a run of the program may find.
InitialFiles ==
    UNION {[S -> InitialFileInfos] : S \in SUBSET DiskPaths}

\* The state after the constructor DataManager::DataManager, which a later
\* event calls deferredInitialization on: no Downloadable yet, maps.json as
\* an earlier run left it.
InitIn(docs, disks, stamps) ==
    /\ objs = << >>
    /\ groups = [g \in GroupNames |-> << >>]
    /\ cache = [g \in GroupNames |->
                    [downloadablesWithFile |-> << >>, downloading |-> FALSE,
                     files |-> << >>, hasFile |-> FALSE, updatable |-> FALSE,
                     updateSize |-> 0]]
    /\ files \in disks
    /\ mapsJson \in [requests : {0}, file : docs \cup {NoFile}]
    /\ acceptedTerms \in BOOLEAN
    /\ timer = 0
    /\ lastUpdate \in stamps
    /\ pc = "constructed"
    /\ emitted = << >>
    /\ last = [op |-> "DataManager", log |-> {}, reconciled |-> NoFile]
    /\ navigator = NewNavigator
    /\ meteorologist = NewMeteorologist

\* The directories an earlier run left below the download directory are those
\* of every file of the model, so that no handler but cleanUp changes them.
InitWith(docs, disks, stamps) ==
    /\ InitIn(docs, disks, stamps)
    /\ dirs = UNION {Ancestors(p) : p \in ManifestPaths \cup DiskPaths \cup NamingPaths}

\* The reconciliation of the manifest with the groups: the user accepted
\* the terms and no update has succeeded yet.
Init == InitWith(Documents, InitialFiles, {-1}) /\ acceptedTerms

DeferredInitialization ==
    /\ pc = "constructed"
    /\ pc' = "running"
    /\ Commit(deferredInitialization(CurrentWorld), "deferredInitialization")

\* The user asks for an update of the list of maps.
UpdateGeoMapList ==
    /\ pc = "running"
    /\ UNCHANGED pc
    /\ Commit(updateGeoMapList(CurrentWorld), "updateGeoMapList")

\* Settings::acceptedTermsChanged, connected to updateGeoMapList.
AcceptedTermsChanged ==
    /\ pc = "running"
    /\ UNCHANGED pc
    /\ Commit(updateGeoMapList([CurrentWorld EXCEPT !.acceptedTerms = ~@]),
              "acceptedTermsChanged")

\* _autoUpdateTimer times out.
AutoUpdateTimerTimeout ==
    /\ pc = "running"
    /\ timer # 0
    /\ UNCHANGED pc
    /\ Commit(autoUpdateGeoMapList(CurrentWorld), "autoUpdateGeoMapList")

MapsJsonDownloadFinished(doc) ==
    /\ pc # "quit"
    /\ mapsJson.requests > 0
    /\ UNCHANGED pc
    /\ Commit(MapsJsonFinished(CurrentWorld, doc), "mapsJsonFinished")

MapsJsonDownloadFailed ==
    /\ pc # "quit"
    /\ mapsJson.requests > 0
    /\ UNCHANGED pc
    /\ Commit(MapsJsonFailed(CurrentWorld), "mapsJsonFailed")

StartFileDownload(r) ==
    /\ pc = "running"
    /\ UNCHANGED pc
    /\ Commit(startFileDownload(CurrentWorld, r), "startFileDownload")

DownloadFinished(r) ==
    /\ pc # "quit"
    /\ objs[r].state = "Downloading"
    /\ UNCHANGED pc
    /\ Commit(downloadFinished(CurrentWorld, r), "downloadFinished")

DownloadFailed(r) ==
    /\ pc # "quit"
    /\ objs[r].state = "Downloading"
    /\ UNCHANGED pc
    /\ Commit(downloadFailed(CurrentWorld, r), "downloadFailed")

StopFileDownload(r) ==
    /\ pc = "running"
    /\ objs[r].state = "Downloading"
    /\ UNCHANGED pc
    /\ Commit(stopFileDownload(CurrentWorld, r), "stopFileDownload")

DeleteFile(r) ==
    /\ pc = "running"
    /\ hasFile(CurrentWorld, r)
    /\ UNCHANGED pc
    /\ Commit(deleteFile(CurrentWorld, r), "deleteFile")

\* QApplication::aboutToQuit, connected to cleanUp.
CleanUp ==
    /\ pc # "quit"
    /\ pc' = "quit"
    /\ Commit(cleanUp(CurrentWorld), "cleanUp")

\* A day passes.
DayPasses ==
    /\ lastUpdate >= 0
    /\ lastUpdate < MaxDays
    /\ lastUpdate' = lastUpdate + 1
    /\ emitted' = << >>
    /\ last' = [op |-> "dayPasses", log |-> {}, reconciled |-> last.reconciled]
    /\ UNCHANGED << objs, groups, cache, files, dirs, mapsJson, acceptedTerms,
                    timer, pc, navigator, meteorologist >>

Next ==
    \/ DeferredInitialization
    \/ UpdateGeoMapList
    \/ \E doc \in Documents : MapsJsonDownloadFinished(doc)
    \/ MapsJsonDownloadFailed
    \/ \E r \in DOMAIN objs : DeleteFile(r)

Spec == Init /\ [][Next]_vars

\* The scheduling of the updates of maps.json: every start-up configuration
\* and every trigger, with manifests that list nothing.
SchedDocuments ==
    {[kind |-> "garbage"], [kind |-> "manifest", url |-> BaseURL, maps |-> << >>]}

InitSched == InitWith(SchedDocuments, {<< >>}, -1..MaxDays)

NextSched ==
    \/ DeferredInitialization
    \/ UpdateGeoMapList
    \/ AcceptedTermsChanged
    \/ AutoUpdateTimerTimeout
    \/ DayPasses
    \/ \E doc \in SchedDocuments : MapsJsonDownloadFinished(doc)
    \/ MapsJsonDownloadFailed

SpecSched == InitSched /\ [][NextSched]_vars

\* A download of maps.json that was started ends, with a file or an error.
FetchCompletes ==
    \/ \E doc \in SchedDocuments : MapsJsonDownloadFinished(doc)
    \/ MapsJsonDownloadFailed

\* The scheduling of the updates where every download that was started ends.
SpecLive == InitSched /\ [][NextSched]_vars /\ WF_vars(FetchCompletes)

\* The naming of the maps: manifests with one entry, whose path is in a
\* directory or not, has a known suffix or not, has one dot or two; and
\* download directories with a file at the root and one in a directory.
NamingDocuments ==
    {[kind |-> "manifest", url |-> BaseURL, maps |-> m] :
         m \in {<< >>}}
    \cup {[kind |-> "manifest", url |-> BaseURL,
           maps |-> << [path |-> p, size |-> v, time |-> v] >>] :
              p \in NamingPaths, v \in Versions}

NamingFiles ==
    UNION {[S -> InitialFileInfos] : S \in SUBSET {PathOrphan, PathOldNotes, PathNotes}}

InitNaming == InitWith(NamingDocuments, NamingFiles, {-1}) /\ acceptedTerms

NextNaming ==
    \/ DeferredInitialization
    \/ UpdateGeoMapList
    \/ \E doc \in NamingDocuments : MapsJsonDownloadFinished(doc)
    \/ MapsJsonDownloadFailed
    \/ \E r \in DOMAIN objs : DeleteFile(r)

SpecNaming == InitNaming /\ [][NextNaming]_vars

\* The DataManager is left alone.
DataManagerIdle ==
    UNCHANGED << objs, groups, cache, files, dirs, mapsJson, acceptedTerms,
                 timer, lastUpdate, pc >>

\* Navigator::deferredInitialization: from now on the position updates of
\* the PositionProvider are delivered to onPositionUpdated.
NavigatorDeferredInitialization ==
    /\ ~navigator.connected
    /\ navigator' = [navigator EXCEPT !.connected = TRUE]
    /\ emitted' = << >>
    /\ last' = [op |-> "Navigator::deferredInitialization", log |-> {},
                reconciled |-> last.reconciled]
    /\ DataManagerIdle
    /\ UNCHANGED meteorologist

\* PositionProvider::positionInfoChanged(info), delivered to
\* Navigator::onPositionUpdated
PositionInfoChanged(info) ==
    /\ navigator.connected
    /\ \E N \in {onPositionUpdated([m_isInFlight |-> navigator.m_isInFlight,
                                     emitted |-> << >>], info)} :
          /\ navigator' = [navigator EXCEPT !.m_isInFlight = N.m_isInFlight,
                                            !.info = info]
          /\ emitted' = N.emitted
    /\ last' = [op |-> "onPositionUpdated", log |-> {},
                reconciled |-> last.reconciled]
    /\ DataManagerIdle
    /\ UNCHANGED meteorologist

\* The Navigator alone, on position updates of every kind.
InitNavigator == InitWith({}, {<< >>}, {-1}) /\ acceptedTerms

NextNavigator ==
    \/ NavigatorDeferredInitialization
    \/ \E info \in PositionInfos : PositionInfoChanged(info)

SpecNavigator == InitNavigator /\ [][NextNavigator]_vars

\* The XML documents of the replies: METARs and TAFs of three stations, one
\* station twice in a document and in two documents, stations out of order.
ReplyDocuments ==
    {<< >>,
     << [kind |-> "METAR", code |-> << "EDTF" >>, id |-> 1],
        [kind |-> "METAR", code |-> << "EDDF" >>, id |-> 1],
        [kind |-> "METAR", code |-> << "EDTF" >>, id |-> 2] >>,
     << [kind |-> "TAF", code |-> << "LSZH" >>, id |-> 1],
        [kind |-> "TAF", code |-> << "EDDF" >>, id |-> 1] >>,
     << [kind |-> "METAR", code |-> << "EDDF" >>, id |-> 2],
        [kind |-> "TAF", code |-> << "EDDF" >>, id |-> 2],
        [kind |-> "TAF", code |-> << "EDDF" >>, id |-> 1] >>}

\* _updateTimer times out (a background update) or the GUI calls update():
\* two queries for a valid position, two for a route that is not empty.
MeteorologistUpdate ==
    \E isBackgroundUpdate, acceptedWeatherTerms, positionIsValid, steerptsEmpty,
       started \in BOOLEAN :
       \E M \in {Meteorologist_update(
                     meteorologist @@ [emitted |-> << >>, log |-> {}],
                     isBackgroundUpdate, acceptedWeatherTerms,
                     (IF positionIsValid THEN 2 ELSE 0)
                         + (IF steerptsEmpty THEN 0 ELSE 2),
                     started)} :
          /\ meteorologist' = [f \in DOMAIN meteorologist |-> M[f]]
          /\ emitted' = M.emitted
          /\ last' = [op |-> "Meteorologist::update", log |-> M.log,
                      reconciled |-> last.reconciled]
          /\ DataManagerIdle
          /\ UNCHANGED navigator

\* The i-th reply finishes with the document doc: QNetworkReply::finished,
\* connected to downloadFinished.
ReplyFinished(i, doc) ==
    /\ i \in 1..Len(meteorologist.replies)
    /\ meteorologist.replies[i].running
    /\ \E M \in {Meteorologist_downloadFinished(
                     [meteorologist EXCEPT
                         !.replies[i] = [running |-> FALSE, error |-> FALSE,
                                         items |-> doc]]
                     @@ [emitted |-> << >>, log |-> {}])} :
          /\ meteorologist' = [f \in DOMAIN meteorologist |-> M[f]]
          /\ emitted' = M.emitted
          /\ last' = [op |-> "QNetworkReply::finished", log |-> M.log,
                      reconciled |-> last.reconciled]
    /\ DataManagerIdle
    /\ UNCHANGED navigator

\* The i-th reply fails: QNetworkReply::errorOccurred while the reply is
\* running, then QNetworkReply::finished, both connected to downloadFinished.
ReplyErrorOccurred(i) ==
    /\ i \in 1..Len(meteorologist.replies)
    /\ meteorologist.replies[i].running
    /\ \E M \in {Meteorologist_downloadFinished(
                     [Meteorologist_downloadFinished(
                          [meteorologist EXCEPT !.replies[i].error = TRUE]
                          @@ [emitted |-> << >>, log |-> {}])
                         EXCEPT !.replies[i].running = FALSE])} :
          /\ meteorologist' = [f \in DOMAIN meteorologist |-> M[f]]
          /\ emitted' = M.emitted
          /\ last' = [op |-> "QNetworkReply::errorOccurred", log |-> M.log,
                      reconciled |-> last.reconciled]
    /\ DataManagerIdle
    /\ UNCHANGED navigator

\* The Meteorologist alone: updates of every kind, and the replies of a
\* batch finishing in every order, each with a document or with an error.
InitMeteorologist == InitWith({}, {<< >>}, {-1}) /\ acceptedTerms

NextMeteorologist ==
    \/ MeteorologistUpdate
    \/ \E i \in DOMAIN meteorologist.replies :
          \E doc \in ReplyDocuments : ReplyFinished(i, doc)
    \/ \E i \in DOMAIN meteorologist.replies : ReplyErrorOccurred(i)

SpecMeteorologist == InitMeteorologist /\ [][NextMeteorologist]_vars

\* Manifests of two maps of one category, one named by a prefix of the name
\* of the other.
OrderDocuments ==
    {[kind |-> "manifest", url |-> BaseURL, maps |-> m] :
         m \in SeqsUpTo([path : OrderPaths, size : {1}, time : {1}], MaxEntries)}

InitOrder ==
    /\ InitWith(OrderDocuments,
                UNION {[S -> InitialFileInfos] : S \in SUBSET OrderPaths}, {-1})
    /\ acceptedTerms

NextOrder ==
    \/ DeferredInitialization
    \/ UpdateGeoMapList
    \/ \E doc \in OrderDocuments : MapsJsonDownloadFinished(doc)
    \/ \E r \in DOMAIN objs : DeleteFile(r)

SpecOrder == InitOrder /\ [][NextOrder]_vars

\* The shutdown: download directories with files that belong to a map or to
\* none, and with directories that are empty, also one in the other.
CleanUpDocuments ==
    {[kind |-> "garbage"], [kind |-> "manifest", url |-> BaseURL, maps |-> << >>]}
    \cup {[kind |-> "manifest", url |-> BaseURL,
           maps |-> << [path |-> p, size |-> 1, time |-> 1] >>] :
              p \in ManifestPaths}

CleanUpFiles ==
    UNION {[S -> InitialFileInfos] :
               S \in {T \in SUBSET {PathEuropeLakes, PathOrphan, PathOldNotes} :
                          Cardinality(T) < MaxObjects}}

InitCleanUp ==
    /\ InitIn(CleanUpDocuments, CleanUpFiles, {-1})
    /\ acceptedTerms
    /\ dirs \in SUBSET {<< "Europe" >>, << "old" >>, << "old", "/", "Africa" >>,
                         << "old", "/", "Africa", "/", "Europe" >>}
    \* the directories hold the directories they and the files are in
    /\ \A p \in DOMAIN files : Ancestors(p) \subseteq dirs
    /\ \A d \in dirs : Ancestors(d) \subseteq dirs

NextCleanUp ==
    \/ DeferredInitialization
    \/ \E doc \in CleanUpDocuments : MapsJsonDownloadFinished(doc)
    \/ MapsJsonDownloadFailed
    \/ \E r \in DOMAIN objs : DeleteFile(r)
    \/ CleanUp

SpecCleanUp == InitCleanUp /\ [][NextCleanUp]_vars

\* The transfers of the maps: manifests that list up to two maps, read at
\* start-up and after the download that start-up begins, and the downloads
\* and deletions of the local files of the maps.
TransferDocuments ==
    {[kind |-> "manifest", url |-> BaseURL, maps |-> m] :
         m \in {<< >>,
                << [path |-> PathEuropeLakes, size |-> 1, time |-> 1] >>,
                << [path |-> PathEuropeLakes, size |-> 2, time |-> 2] >>,
                << [path |-> PathEuropeLakes, size |-> 1, time |-> 1],
                   [path |-> PathAfricaLakes, size |-> 1, time |-> 1] >>}}

InitTransfer == InitWith(TransferDocuments, InitialFiles, {-1}) /\ acceptedTerms

NextTransfer ==
    \/ DeferredInitialization
    \/ \E doc \in TransferDocuments : MapsJsonDownloadFinished(doc)
    \/ \E r \in DOMAIN objs : StartFileDownload(r)
    \/ \E r \in DOMAIN objs : StopFileDownload(r)
    \/ \E r \in DOMAIN objs : DownloadFinished(r)
    \/ \E r \in DOMAIN objs : DownloadFailed(r)
    \/ \E r \in DOMAIN objs : DeleteFile(r)

SpecTransfer == InitTransfer /\ [][NextTransfer]_vars


(***************************************************************************)
(* Properties.                                                             *)
(***************************************************************************)
Umbrella == SeqToSet(groups["geoMaps"])

\* The name readGeoMapListFromJSONFile gives the entry e of a manifest.
EntryName(e) == section(section(e.path, ".", -2, -2), "/", -1, -1)

ManifestNames(doc) == {EntryName(doc.maps[i]) : i \in 1..Len(doc.maps)}

HasLocalFile(r) == objs[r].fileName \in DOMAIN files

IsUpdatable(r) ==
    /\ HasLocalFile(r)
    /\ UrlIsValid(objs[r].url)
    /\ \/ objs[r].remoteFileDate > files[objs[r].fileName].date
       \/ objs[r].remoteFileSize # files[objs[r].fileName].size

\* The last handler ran a reconciliation pass on a manifest that parsed.
AfterManifestPass ==
    /\ PassRan(last.log)
    /\ mapsJson.file.kind = "manifest"

DidTo(what) == {e.id : e \in {x \in last.log : x.ev = what}}

ErrorEvents == {i \in 1..Len(emitted) : emitted[i] = Signal("DataManager", "error")}

\* C1: after every completed reconciliation pass the umbrella group holds
\* exactly one Downloadable per distinct entry name of the latest manifest,
\* every other member is one with a local file (retained or unattached), and
\* no two members have the same name.
C1_OnePerName ==
    AfterManifestPass =>
        /\ \A n \in ManifestNames(mapsJson.file) :
               Cardinality({r \in Umbrella : objs[r].objectName = n}) = 1
        /\ \A r \in Umbrella :
               objs[r].objectName \in ManifestNames(mapsJson.file) \/ HasLocalFile(r)
        /\ \A a, b \in Umbrella : a # b => objs[a].objectName # objs[b].objectName

\* C2: a reconciliation pass that reads the document the pass before it
\* read, with no change of a local file or a transfer in between, creates and
\* destroys no Downloadable, changes no field of one, no membership of a
\* group and no cached aggregate, and no group emits a signal.
C2_Idempotent ==
    [][(PassRan(last'.log) /\ last.reconciled = mapsJson'.file)
           => /\ objs' = objs
              /\ groups' = groups
              /\ cache' = cache
              /\ \A i \in 1..Len(emitted') : emitted'[i].src \notin GroupNames
      ]_vars

\* C3: no member of the umbrella group has both an invalid URL and no local
\* file, after any reconciliation pass and after any change of a local file.
C3_NoOrphan ==
    \A r \in Umbrella : UrlIsValid(objs[r].url) \/ HasLocalFile(r)

\* C3 witness: a local file was deleted and localFileOfGeoMapChanged removed
\* the unsupported map it belonged to.
C3_Witness ==
    /\ last.op = "deleteFile"
    /\ DidTo("pruned") # {}

\* A member of the umbrella group that the manifest doc does not declare.
Undeclared(r, doc) == objs[r].objectName \notin ManifestNames(doc)

\* C4: when a parsed manifest no longer declares a member of the umbrella
\* group that has a local file, the member is still in the umbrella group
\* after the pass, its local file is untouched and its URL is invalid.
C4_DroppedKeptUrlCleared ==
    [][(last'.op = "mapsJsonFinished" /\ mapsJson'.file.kind = "manifest")
           => \A r \in Umbrella :
                  (Undeclared(r, mapsJson'.file) /\ HasLocalFile(r))
                      => /\ r \in SeqToSet(groups'["geoMaps"])
                         /\ files' = files
                         /\ ~UrlIsValid(objs'[r].url)
      ]_vars

\* C5: a member dropped from the manifest and kept for its local file is not
\* updatable after the pass and does not make the umbrella group updatable.
C5_DroppedNotUpdatable ==
    [][(last'.op = "mapsJsonFinished" /\ mapsJson'.file.kind = "manifest")
           => \A r \in Umbrella :
                  (Undeclared(r, mapsJson'.file) /\ HasLocalFile(r))
                      => /\ ~IsUpdatable(r)'
                         /\ cache'["geoMaps"].updatable
                                => \E x \in SeqToSet(groups'["geoMaps"]) \ {r} :
                                       IsUpdatable(x)'
      ]_vars

\* C6: when a parsed manifest no longer declares a member of the umbrella
\* group that has no local file, the member is destroyed during the pass and
\* is in no group afterwards.
C6_DroppedDestroyed ==
    [][(last'.op = "mapsJsonFinished" /\ mapsJson'.file.kind = "manifest")
           => \A r \in Umbrella :
                  (Undeclared(r, mapsJson'.file) /\ ~HasLocalFile(r))
                      => /\ r \notin DOMAIN objs'
                         /\ \A g \in GroupNames : r \notin SeqToSet(groups'[g])
      ]_vars

\* C6 witness: a pass on a manifest that declares nothing has deleted a
\* member.
C6_Witness ==
    /\ last.op = "mapsJsonFinished"
    /\ mapsJson.file.kind = "manifest"
    /\ mapsJson.file.maps = << >>
    /\ DidTo("deleted") # {}

\* C7: when the download of maps.json fails, the signal error is emitted, no
\* reconciliation pass runs, and the groups and every Downloadable are as
\* they were.
C7_FetchErrorSurfaced ==
    [][last'.op = "mapsJsonFailed"
           => /\ ErrorEvents' # {}
              /\ ~PassRan(last'.log)
              /\ objs' = objs
              /\ groups' = groups
              /\ cache' = cache
              /\ files' = files
      ]_vars

\* C7 witness: the download failed while the umbrella group had members.
C7_Witness ==
    /\ last.op = "mapsJsonFailed"
    /\ Umbrella # {}

\* C8: when the downloaded maps.json is no JSON, the signal error is emitted
\* as it is for a failed download.
C8_ParseErrorSurfaced ==
    (last.op = "mapsJsonFinished" /\ mapsJson.file.kind = "garbage")
        => ErrorEvents # {}

\* C9: a reconciliation pass on a malformed document (no JSON, or JSON
\* without a "maps" array) creates, destroys and modifies no Downloadable and
\* changes no membership of a group.
C9_MalformedNoMutation ==
    [][(last'.op = "mapsJsonFinished" /\ mapsJson'.file.kind \in {"garbage", "nomaps"})
           => /\ objs' = objs
              /\ groups' = groups
      ]_vars

\* The handlers that ask for a download of maps.json.
Triggers == {"updateGeoMapList", "acceptedTermsChanged", "autoUpdateGeoMapList",
             "deferredInitialization"}

\* C10: at most one download of maps.json is in flight, and a trigger that
\* comes while one is in flight starts none and emits nothing.
C10_OneFetchInFlight ==
    /\ [](mapsJson.requests <= 1)
    /\ [][(last'.op \in Triggers /\ mapsJson.requests > 0 /\ pc = "running")
              => /\ mapsJson' = mapsJson
                 /\ emitted' = << >>
         ]_vars

\* C10 witness: a trigger came while a download of maps.json was in flight.
C10_Witness ==
    /\ last.op \in Triggers
    /\ [ev |-> "busy", id |-> 0] \in last.log
    /\ mapsJson.requests = 1

\* C11: while acceptedTerms is false no download of maps.json is started,
\* whatever the trigger.
C11_NetworkGate ==
    [][(~acceptedTerms /\ ~acceptedTerms')
           => mapsJson'.requests <= mapsJson.requests]_vars

\* C12: once deferredInitialization has run, the auto-update timer is armed.
C12_TimerArmed ==
    pc = "running" => timer # 0

\* The time stamp of the last update is missing or more than StaleDays old.
Stale == lastUpdate = -1 \/ lastUpdate > StaleDays

\* autoUpdateGeoMapList ran: the timer fired, or the program started with
\* the terms accepted.
AutoUpdateChecked ==
    \/ last'.op = "autoUpdateGeoMapList"
    \/ last'.op = "deferredInitialization" /\ acceptedTerms

C14_ReturnsToIdle ==
    /\ (mapsJson.requests > 0) ~> (mapsJson.requests = 0)
    /\ [][(last'.op = "updateGeoMapList" /\ mapsJson.requests = 0)
              => mapsJson'.requests = 1]_vars

\* C14 witness: updateGeoMapList started a download after one had ended
\* with a file that does not parse.
C14_Witness ==
    /\ last.op = "updateGeoMapList"
    /\ mapsJson.file.kind = "garbage"
    /\ mapsJson.requests = 1
    /\ lastUpdate = 0

\* The objects the last handler did `what` to and that are alive.
AliveDidTo(what) == DidTo(what) \cap DOMAIN objs

\* C15: every Downloadable newly created from an entry of a manifest is in
\* the umbrella group and in exactly one of the three sub-groups, whatever
\* the suffix of its path.
C15_ExactlyOneSubGroup ==
    \A r \in AliveDidTo("created") :
        /\ r \in Umbrella
        /\ Cardinality({g \in {"aviationMaps", "baseMaps", "databases"} :
                            r \in SeqToSet(groups[g])}) = 1

\* C16: after any invocation of readGeoMapListFromJSONFile, also one on a
\* file that does not parse, every file of the download directory is the
\* local file of a member of the umbrella group, and one that is the file of
\* no member with a URL is the file of exactly one member without URL.
C16_UnattachedFilesWrapped ==
    (\/ last.op = "mapsJsonFinished"
     \/ last.op = "deferredInitialization" /\ mapsJson.file # NoFile) =>
        \A p \in DOMAIN files :
            \/ \E r \in Umbrella : objs[r].fileName = p /\ UrlIsValid(objs[r].url)
            \/ Cardinality({r \in Umbrella : /\ objs[r].fileName = p
                                              /\ ~UrlIsValid(objs[r].url)}) = 1

\* The stem of the file at path: its name within its directory, without
\* the suffix after the last dot.
Stem(path) == section(section(path, "/", -1, -1), ".", 0, -2)

\* C17: the Downloadable created for an unattached file, at the root or in a
\* directory, has the stem of the file as name, the section "Unsupported
\* Maps", a local file and no valid URL.
C17_UnattachedNamedByStem ==
    \A r \in AliveDidTo("unattached") :
        /\ objs[r].objectName = Stem(objs[r].fileName)
        /\ objs[r].section = UnsupportedSection
        /\ HasLocalFile(r)
        /\ ~UrlIsValid(objs[r].url)

\* The sub-group the suffix of path selects.
SubGroupOf(path) ==
    IF endsWith(path, "geojson") THEN {"aviationMaps"}
    ELSE IF endsWith(path, "mbtiles") THEN {"baseMaps"}
    ELSE IF endsWith(path, "txt") THEN {"databases"}
    ELSE {}

\* The members of the umbrella group after the step that are as C18 says
\* the Downloadable of the entry e is.
AsEntrySays(e) ==
    {r \in SeqToSet(groups'["geoMaps"]) :
        /\ objs'[r].objectName = Stem(e.path)
        /\ objs'[r].section = section(e.path, "/", -2, -2)
        /\ objs'[r].fileName = e.path
        /\ objs'[r].url = BaseURL \o << "/" >> \o e.path
        /\ \A g \in SubGroupOf(e.path) : r \in SeqToSet(groups'[g])
        /\ ~HasLocalFile(r)' => ~IsUpdatable(r)'}

\* C18: a pass on a manifest with the umbrella group empty creates for every
\* entry one Downloadable named by the stem of the path, with the parent
\* segment as section, the path as local file, base URL + "/" + path as URL,
\* in the umbrella group and the sub-group of its suffix, and not updatable
\* while it has no local file.
C18_CreatedFromEntry ==
    [][(Umbrella = {} /\ PassRan(last'.log) /\ mapsJson'.file.kind = "manifest")
           => \A i \in 1..Len(mapsJson'.file.maps) :
                  Cardinality(AsEntrySays(mapsJson'.file.maps[i])) = 1
      ]_vars

\* C19: after cleanUp the download directory holds no file that is not the
\* local file of a Downloadable known when cleanUp started, and no empty
\* directory at any depth.
C19_CleanUpLeavesNoStrays ==
    [][last'.op = "cleanUp"
           => /\ \A p \in DOMAIN files' : \E r \in Umbrella : objs[r].fileName = p
              /\ \A d \in dirs' : ~DirIsEmpty(d, files', dirs')
      ]_vars

\* C19 witness: cleanUp removed an unattached file and, in a third run
\* through the directories, a directory that the runs before had emptied.
C19_Witness ==
    /\ last.op = "cleanUp"
    /\ [ev |-> "removedFile", id |-> 0] \in last.log
    /\ [ev |-> "removedDir", id |-> 3] \in last.log

\* How often the group g emitted the notifier of its property prop in the
\* last handler.
Notifications(g, prop) ==
    Cardinality({i \in 1..Len(emitted) : emitted[i] = Signal(g, NotifierOf(prop))})

DerivedProperties == {"downloading", "updatable", "hasFile", "files", "updateSize"}

\* C20: a group emits the notifier of a derived property only when the
\* recomputed value differs from the cached one: a handler in which it
\* emitted the notifier once has changed the cached value, and so has one in
\* which it emitted the notifier of a Boolean property an odd number of times.
C20_ChangeSuppression ==
    [][\A g \in GroupNames : \A prop \in DerivedProperties :
           (\/ Notifications(g, prop)' = 1
            \/ /\ prop \in {"downloading", "hasFile", "updatable"}
               /\ Notifications(g, prop)' % 2 = 1)
               => cache'[g][prop] # cache[g][prop]
      ]_vars

\* C20 witness: a download of a member started, which changed the group's
\* downloading and nothing else of it: the only signal of the umbrella group
\* is downloadingChanged.
C20_Witness ==
    /\ last.op = "startFileDownload"
    /\ cache["geoMaps"].downloading
    /\ cache["geoMaps"].hasFile
    /\ \A i \in 1..Len(emitted) :
           emitted[i].src = "geoMaps" => emitted[i].sig = "downloadingChanged"

\* C21: between the handlers every cached aggregate of every group
\* (downloading, updatable, hasFile, files, updateSize) is the value computed
\* from its members as they are.
C21_NoStaleAggregate ==
    \A g \in GroupNames : \A prop \in DerivedProperties :
        cache[g][prop] = Aggregates(CurrentWorld, g)[prop]

C23_SortedByCategoryAndName ==
    \A g \in GroupNames :
        LET list == downloadables(CurrentWorld, g)
            Before(a, b) ==
                IF objs[a].section # objs[b].section
                THEN StrLess(objs[a].section, objs[b].section)
                ELSE StrLess(objs[a].objectName, objs[b].objectName)
        IN /\ \A i \in 1..Len(list) : list[i] \in DOMAIN objs
           /\ \A i, j \in 1..Len(list) : i < j => ~Before(list[j], list[i])

\* C23 (amended): in every state the list 'downloadables' of every group is
\* in ascending order of category first and file name second, and each of
\* its entries is an object that exists.
C23_SortedByCategoryAndFileName ==
    \A g \in GroupNames :
        LET list == downloadables(CurrentWorld, g)
            Before(a, b) ==
                IF objs[a].section # objs[b].section
                THEN StrLess(objs[a].section, objs[b].section)
                ELSE StrLess(objs[a].fileName, objs[b].fileName)
        IN /\ \A i \in 1..Len(list) : list[i] \in DOMAIN objs
           /\ \A i, j \in 1..Len(list) : i < j => ~Before(list[j], list[i])

\* A list of two maps of one category whose names are in the other order
\* than their file names.
C23_Witness ==
    \E g \in GroupNames :
        LET list == downloadables(CurrentWorld, g)
        IN /\ Len(list) = 2
           /\ objs[list[1]].section = objs[list[2]].section
           /\ StrLess(objs[list[1]].fileName, objs[list[2]].fileName)
           /\ StrLess(objs[list[2]].objectName, objs[list[1]].objectName)

\* The members of the group g that exist.
Live(g) == SeqToSet(groups[g]) \cap DOMAIN objs

\* The local file of r is the remote file its descriptor describes.
Installed(r) ==
    /\ objs'[r].fileName \in DOMAIN files'
    /\ files'[objs'[r].fileName] =
           [date |-> objs'[r].remoteFileDate, size |-> objs'[r].remoteFileSize]

\* C24: when the transfer of a member fails while another member of the group
\* is Downloading, the other one goes on and the group stays downloading;
\* when the transfer of the last Downloading member of a group with a Failed
\* member completes, its file is installed and the group stops downloading.
C24_FailureBesideTransfer ==
    [][\A g \in GroupNames : \A a, b \in Live(g) :
          /\ ( /\ a # b
               /\ objs[a].state = "Downloading" /\ objs[b].state = "Downloading"
               /\ last'.op = "downloadFailed"
               /\ a \in DOMAIN objs' /\ objs'[a].state = "Failed" )
             => /\ b \in DOMAIN objs' /\ objs'[b].state = "Downloading"
                /\ cache[g].downloading /\ cache'[g].downloading
          /\ ( /\ a # b
               /\ objs[a].state = "Failed" /\ objs[b].state = "Downloading"
               /\ \A c \in Live(g) \ {b} : objs[c].state # "Downloading"
               /\ last'.op = "downloadFinished"
               /\ b \in DOMAIN objs' /\ objs'[b].state # "Downloading" )
             => /\ cache[g].downloading /\ ~cache'[g].downloading
                /\ objs'[b].state = "Idle"
                /\ Installed(b)]_vars

\* The transfer of a member has just failed while another member of its
\* group is Downloading.
C24_Witness ==
    /\ last.op = "downloadFailed"
    /\ \E g \in GroupNames : \E a, b \in Live(g) :
          /\ objs[a].state = "Failed"
          /\ objs[b].state = "Downloading"
          /\ cache[g].downloading

\* C25: the failure of the transfer of a map puts only that map in state
\* Failed, leaves every other map and every local file as they were, and one
\* error event of a group is emitted.
C25_FailureIsLocal ==
    [][last'.op = "downloadFailed"
           => /\ \E r \in DOMAIN objs :
                    /\ objs[r].state = "Downloading"
                    /\ objs' = [objs EXCEPT ![r].state = "Failed",
                                            ![r].transfers = 0]
              /\ files' = files
              /\ Cardinality({i \in 1..Len(emitted') :
                                 /\ emitted'[i].sig = "error"
                                 /\ emitted'[i].src \in GroupNames \cup {"DataManager"}})
                    = 1]_vars

\* C26: a map has at most one transfer in flight, one exactly while it is
\* Downloading; startFileDownload opens the transfer of a map that is not
\* Downloading, and otherwise changes nothing and reports no error.
C26_OneTransferPerMap ==
    /\ [](\A r \in DOMAIN objs :
             objs[r].transfers = IF objs[r].state = "Downloading" THEN 1 ELSE 0)
    /\ [][last'.op = "startFileDownload"
              => \/ /\ objs' = objs /\ files' = files
                    /\ groups' = groups /\ cache' = cache
                    /\ emitted' = << >>
                 \/ \E r \in DOMAIN objs :
                       /\ objs[r].state # "Downloading"
                       /\ objs' = [objs EXCEPT ![r].state = "Downloading",
                                               ![r].transfers = 1]]_vars

\* startFileDownload was called on the only map, which is Downloading, and
\* nothing was emitted: the call found the map Downloading.
C26_Witness ==
    /\ last.op = "startFileDownload"
    /\ emitted = << >>
    /\ \E r \in DOMAIN objs :
          /\ DOMAIN objs = {r}
          /\ \E g \in GroupNames : r \in SeqToSet(groups[g])
          /\ objs[r].state = "Downloading" /\ objs[r].transfers = 1

\* C27: the start, the abort and the failure of a transfer leave every local
\* file as it is; a file changes only when the transfer of its map has
\* finished, which makes it the remote file, or when it is deleted.
C27_FileChangesOnSuccessOnly ==
    [][/\ last'.op \in {"startFileDownload", "stopFileDownload", "downloadFailed"}
            => files' = files
       /\ (files' # files /\ last'.op # "deleteFile")
            => /\ last'.op = "downloadFinished"
               /\ \E r \in DOMAIN objs :
                     /\ objs[r].state = "Downloading"
                     /\ r \in DOMAIN objs' /\ objs'[r].state = "Idle"
                     /\ DOMAIN files' \ {objs[r].fileName}
                           = DOMAIN files \ {objs[r].fileName}
                     /\ \A q \in DOMAIN files \ {objs[r].fileName} :
                           files'[q] = files[q]
                     /\ Installed(r)]_vars

\* The transfer of the only map, one with an older local file, has just been
\* aborted, and the older file is there.
C27_Witness ==
    /\ last.op = "stopFileDownload"
    /\ \E r \in DOMAIN objs :
          /\ DOMAIN objs = {r}
          /\ objs[r].state = "Idle"
          /\ HasLocalFile(r)
          /\ objs[r].remoteFileDate > files[objs[r].fileName].date

\* The ground speed of the position update can be read: the update is valid
\* and its ground speed is finite.
Readable(info) == info.valid /\ info.groundSpeed.finite

\* C28: after a position update whose ground speed can be read and is above
\* minFlightSpeedInKN (30 kn) the Navigator is in flight, and after one whose
\* ground speed cannot be read it is not.
C28_InFlightBySpeed ==
    last.op = "onPositionUpdated" =>
        /\ (Readable(navigator.info)
              /\ navigator.info.groundSpeed.kn > minFlightSpeedInKN)
               => navigator.m_isInFlight
        /\ ~Readable(navigator.info) => ~navigator.m_isInFlight

\* A position update without a ground speed has just ended a flight.
C28_Witness ==
    /\ last.op = "onPositionUpdated"
    /\ ~Readable(navigator.info)
    /\ ~navigator.m_isInFlight
    /\ emitted = << Signal("Navigator", "isInFlightChanged") >>

\* C29: every Downloadable that a reconciliation pass claims for an entry of
\* its name has the remote size and date of such an entry afterwards, and its
\* name, section, local path, local file, transfer state and groups are as
\* they were.
C29_ClaimTouchesDescriptorOnly ==
    [][\A r \in DidTo("claimed")' :
          /\ r \in DOMAIN objs /\ r \in DOMAIN objs'
          /\ objs'[r].objectName = objs[r].objectName
          /\ objs'[r].section = objs[r].section
          /\ objs'[r].fileName = objs[r].fileName
          /\ objs'[r].state = objs[r].state
          /\ objs'[r].transfers = objs[r].transfers
          /\ (objs[r].fileName \in DOMAIN files') = (objs[r].fileName \in DOMAIN files)
          /\ objs[r].fileName \in DOMAIN files
                => files'[objs[r].fileName] = files[objs[r].fileName]
          /\ \A g \in GroupNames :
                (r \in SeqToSet(groups'[g])) = (r \in SeqToSet(groups[g]))
          /\ \E i \in 1..Len(mapsJson'.file.maps) :
                LET e == mapsJson'.file.maps[i]
                IN /\ EntryName(e) = objs[r].objectName
                   /\ objs'[r].remoteFileDate = e.time
                   /\ objs'[r].remoteFileSize = e.size]_vars

\* A pass has just claimed a Downloadable with a local file and a running
\* transfer, and gave it a newer remote descriptor.
C29_Witness ==
    /\ PassRan(last.log)
    /\ \E r \in DidTo("claimed") \cap DOMAIN objs :
          /\ objs[r].state = "Downloading"
          /\ HasLocalFile(r)
          /\ objs[r].remoteFileDate > files[objs[r].fileName].date

\* C30: after a reconciliation pass on a manifest, every Downloadable that
\* the pass created or claimed for an entry stands for an entry of the
\* manifest: its URL is the base URL, "/" and the path of the entry, and its
\* local path is the path of the entry.
C30_EntryGivesUrlAndPath ==
    AfterManifestPass =>
        \A r \in (DidTo("created") \cup DidTo("claimed")) \cap DOMAIN objs :
            \E i \in 1..Len(mapsJson.file.maps) :
                LET e == mapsJson.file.maps[i]
                IN /\ objs[r].objectName = EntryName(e)
                   /\ objs[r].url = BaseURL \o << "/" >> \o e.path
                   /\ UrlIsValid(objs[r].url)
                   /\ objs[r].fileName = e.path

\* C31: a failed download of maps.json, and a downloaded maps.json that is
\* no JSON, leave the time of the last update and the interval of the timer
\* as they were.
C31_TimestampOnSuccessOnly ==
    [][(\/ last'.op = "mapsJsonFailed"
        \/ (last'.op = "mapsJsonFinished" /\ mapsJson'.file.kind = "garbage"))
       => (lastUpdate' = lastUpdate /\ timer' = timer)]_vars

\* C32: a Downloadable that is Downloading when a pass of
\* readGeoMapListFromJSONFile starts still exists after the pass.
C32_PassSparesDownloading ==
    [][PassRan(last'.log) =>
          \A r \in DOMAIN objs :
              objs[r].state = "Downloading" => r \in DOMAIN objs']_vars

\* C33: the groups of aviation maps, base maps and databases are pairwise
\* disjoint, and every member of one of them is a member of the group of all
\* geo maps.
C33_SubGroupsPartition ==
    LET SubGroups == {"aviationMaps", "baseMaps", "databases"}
    IN /\ \A g \in SubGroups : SeqToSet(groups[g]) \subseteq Umbrella
       /\ \A g, h \in SubGroups :
              g # h => SeqToSet(groups[g]) \cap SeqToSet(groups[h]) = {}

\* Two of the three groups have members, beside a geo map that is in none
\* of them.
C33_Witness ==
    /\ groups["aviationMaps"] # << >>
    /\ groups["databases"] # << >>
    /\ \E r \in Umbrella :
          \A g \in {"aviationMaps", "baseMaps", "databases"} :
              r \notin SeqToSet(groups[g])

\* C34: cleanUp leaves the local file of every geo map known when it starts
\* as it is; a file it removes is the local file of no such map, and a
\* directory it removes held no file that stays.
C34_CleanUpSparesLocalFiles ==
    [][last'.op = "cleanUp" =>
          LET attached == {objs[r].fileName : r \in Umbrella}
          IN /\ \A p \in attached \cap DOMAIN files :
                    p \in DOMAIN files' /\ files'[p] = files[p]
             /\ \A p \in DOMAIN files \ DOMAIN files' : p \notin attached
             /\ \A d \in dirs \ dirs' :
                    \A p \in attached \cap DOMAIN files : d \notin Ancestors(p)
      ]_vars

\* C34 witness: cleanUp removed directories in two runs, and two local files
\* of geo maps, one of them in a directory, are there after it.
C34_Witness ==
    /\ last.op = "cleanUp"
    /\ [ev |-> "removedDir", id |-> 2] \in last.log
    /\ Cardinality(DOMAIN files) = 2
    /\ \E p \in DOMAIN files : Ancestors(p) # {}

C37_ErrorDiscardsBatch ==
    [][LET processed == \E e \in last'.log : e.ev = "process"
           failed == \/ \E i \in DOMAIN meteorologist.replies :
                            meteorologist.replies[i].error
                     \/ last'.op = "QNetworkReply::errorOccurred"
                     \/ /\ last'.op = "Meteorologist::update"
                        /\ [ev |-> "get", id |-> 1] \in last'.log
           errors == {i \in DOMAIN emitted' :
                          emitted'[i] = Signal("Meteorologist", "error")}
       IN /\ (processed /\ failed) =>
                /\ Cardinality(errors) = 1
                /\ meteorologist'.replies = << >>
                /\ meteorologist'.reports = meteorologist.reports
                /\ meteorologist'.lastUpdate = meteorologist.lastUpdate
                /\ \A i \in DOMAIN emitted' :
                       emitted'[i] # Signal("Meteorologist", "reportsChanged")
          /\ errors # {} => (processed /\ failed)
      ]_vars

\* C37 witness: the last reply of a batch finished without an error after
\* another one had failed; error was emitted and the reports of three
\* stations, made of the batch before, are still there.
C37_Witness ==
    /\ last.op = "QNetworkReply::finished"
    /\ \E i \in DOMAIN emitted : emitted[i] = Signal("Meteorologist", "error")
    /\ meteorologist.replies = << >>
    /\ Len(meteorologist.reports) = 3

\* C38: an update() while a request is running sends no request, keeps
\* every reply as it is and processes nothing; the replies are processed
\* once, by the handler that finds none of them running, and never while
\* another one is running.
C38_UpdateWaitsForBatch ==
    [][LET running == {i \in DOMAIN meteorologist.replies :
                           meteorologist.replies[i].running}
           processes == {e \in last'.log : e.ev = "process"}
       IN /\ (last'.op = "Meteorologist::update" /\ running # {}) =>
                /\ \A e \in last'.log : e.ev # "get"
                /\ processes = {}
                /\ meteorologist'.replies = meteorologist.replies
                /\ meteorologist'.reports = meteorologist.reports
          /\ processes # {} =>
                /\ processes = {[ev |-> "process", id |-> 1]}
                /\ Cardinality(running) <= 1
                /\ meteorologist'.replies = << >>
          /\ (last'.op # "Meteorologist::update" /\ Cardinality(running) = 1)
                => processes # {}
          /\ Cardinality(running) > 1 => processes = {}
      ]_vars

\* C38 witness: update() was called from the GUI while one reply of a
\* batch had finished and another one was running: it told the GUI that
\* the update is no background update and left the replies alone.
C38_Witness ==
    /\ last.op = "Meteorologist::update"
    /\ last.log = {}
    /\ emitted = << Signal("Meteorologist", "backgroundUpdateChanged") >>
    /\ \E i, j \in DOMAIN meteorologist.replies :
          /\ meteorologist.replies[i].running
          /\ ~meteorologist.replies[j].running
          /\ meteorologist.replies[j].items # << >>

\* C39: when a batch of replies without an error has been processed, the
\* list of reports has one Station for every station code of a METAR or a
\* TAF of the replies and no other one, no code twice; its METAR is the first
\* METAR of that code in the replies, in their order, and its TAF the first
\* TAF, and the one there is none of is missing.
C39_OneStationPerCode ==
    \A e \in last.log :
        (e.ev = "replies" /\ \A i \in DOMAIN e.id : ~e.id[i].error) =>
            LET replies == e.id
                Items[i \in 0..Len(replies)] ==
                    IF i = 0 THEN << >> ELSE Items[i - 1] \o replies[i].items
                all == Items[Len(replies)]
                reports == meteorologist.reports
                First(kind, code) ==
                    LET at == {i \in DOMAIN all :
                                   all[i].kind = kind /\ all[i].code = code}
                    IN IF at = {} THEN 0
                       ELSE all[CHOOSE i \in at : \A j \in at : i <= j].id
            IN /\ {reports[i].code : i \in DOMAIN reports}
                      = {all[i].code : i \in DOMAIN all}
               /\ \A i, j \in DOMAIN reports :
                      reports[i].code = reports[j].code => i = j
               /\ \A i \in DOMAIN reports :
                      /\ reports[i].metar = First("METAR", reports[i].code)
                      /\ reports[i].taf = First("TAF", reports[i].code)

\* C39 witness: the replies of a batch had two METARs and two TAFs of EDDF,
\* two METARs of EDTF and a TAF of LSZH; the reports are the first METAR and
\* the first TAF of EDDF, the first METAR of EDTF alone and the TAF of LSZH
\* alone.
C39_Witness ==
    /\ last.op = "QNetworkReply::finished"
    /\ \E e \in last.log : e.ev = "replies" /\ Len(e.id) = 4
    /\ meteorologist.reports =
           << [code |-> << "EDDF" >>, metar |-> 1, taf |-> 2],
              [code |-> << "EDTF" >>, metar |-> 1, taf |-> 0],
              [code |-> << "LSZH" >>, metar |-> 0, taf |-> 1] >>

=============================================================================
